---- MODULE Spec2Model ----
(***************************************************************************)
(* Kinematics of the solar-system scene: CelestialBody (constructor,       *)
(* setupOrbit, update) and SolarSystemScene (addCelestialBody, animate),   *)
(* as written in src/script.js and in its near-duplicate                   *)
(* src/unnamed/part_001.                                                   *)
(*                                                                         *)
(* Number representation.  JavaScript numbers are modelled over the exact  *)
(* reals, without floating-point rounding:                                 *)
(*   - an angle is an integer number of steps, TwoPi steps to the turn;    *)
(*   - cos and sin of such an angle are exact elements of the ring         *)
(*     Z[zeta], zeta = exp(2*pi*i/TwoPi), zeta^HalfTurn = -1, held as the  *)
(*     set of <<exponent, coefficient>> pairs of their nonzero             *)
(*     coefficients over the basis zeta^0 .. zeta^(HalfTurn-1) (unique,    *)
(*     TwoPi being a power of two);                                        *)
(*   - a coordinate c is held as the ring element 2000*c: 2 for the half   *)
(*     in cos = (zeta^k + zeta^-k)/2, 1000 for eccentricities given in     *)
(*     thousandths;                                                        *)
(*   - NaN is a value of its own; an absent (undefined) field is the       *)
(*     empty set and a present one the singleton of its value;             *)
(*   - a spin angle is a rational number of turns <<n, d>> in lowest       *)
(*     terms.                                                              *)
(* Units: semiMajorAxis in thousandths of an AU, eccentricity in           *)
(* thousandths, orbitalPeriod, rotationPeriod and currentTime in           *)
(* hundredths of a day, axialTilt in thousandths of a degree.              *)
(***************************************************************************)
EXTENDS Integers, Sequences, FiniteSets, TLC

VARIABLES
    entry,            \* which source file is running
    script,           \* the addCelestialBody statements of its top level
    pc,               \* the next statement of script to run
    celestialBodies,  \* SolarSystemScene.celestialBodies
    timeScale,        \* SolarSystemScene.timeScale
    frame,            \* number of renderer.render calls so far
    clockDelta,       \* what clock.getDelta() returned in the last frame
    calls             \* the calls the last frame made, in order

vars == <<entry, script, pc, celestialBodies, timeScale, frame, clockDelta, calls>>

---------------------------------------------------------------------------
(* Bounds of the model. *)
MaxFrames == 3
MaxDelta == 1
MaxTimeScale == 2

---------------------------------------------------------------------------
(* JavaScript values. *)

\* An optional field: absent (undefined) or present.
None == {}
Some(v) == {v}
Val(o) == CHOOSE v \in o : TRUE

\* JavaScript truthiness of an optional number: undefined and 0 are falsy.
Truthy(o) == o # None /\ o # Some(0)

\* Math.PI * 2, in angle steps.
TwoPi == 128
HalfTurn == TwoPi \div 2
QuarterTurn == TwoPi \div 4

\* Ring elements.
Zero == {}
Coef(p, e) == IF \E m \in p : m[1] = e THEN (CHOOSE m \in p : m[1] = e)[2] ELSE 0
Support(p) == {m[1] : m \in p}
Add(p, q) ==
    {<<e, Coef(p, e) + Coef(q, e)>> :
        e \in {f \in Support(p) \cup Support(q) : Coef(p, f) + Coef(q, f) # 0}}
Scale(n, p) == IF n = 0 THEN Zero ELSE {<<m[1], n * m[2]>> : m \in p}
\* zeta^k
Unit(k) ==
    LET r == k % TwoPi
    IN  IF r < HalfTurn THEN {<<r, 1>>} ELSE {<<r - HalfTurn, -1>>}
RECURSIVE SumAll(_)
SumAll(S) ==
    IF S = {} THEN Zero
    ELSE LET s == CHOOSE s \in S : TRUE IN Add(s[3], SumAll(S \ {s}))
Mul(p, q) ==
    SumAll({<<m, n, Scale(m[2] * n[2], Unit(m[1] + n[1]))>> : m \in p, n \in q})
Const(n) == Scale(n, Unit(0))

\* Numbers: finite ring elements, or NaN.
Num(p) == [nan |-> FALSE, v |-> p]
NaN == [nan |-> TRUE, v |-> Zero]

\* Rationals in lowest terms, for spin angles in turns.
RECURSIVE GCD(_, _)
GCD(a, b) == IF b = 0 THEN a ELSE GCD(b, a % b)
Abs(n) == IF n < 0 THEN -n ELSE n
Rat(n, d) ==
    LET s == IF d < 0 THEN -1 ELSE 1
        g == GCD(Abs(n), Abs(d))
    IN  <<(s * n) \div g, (s * d) \div g>>
RatAdd(a, b) ==
    LET g == GCD(a[2], b[2])
        l == (a[2] \div g) * b[2]
    IN  Rat(a[1] * (l \div a[2]) + b[1] * (l \div b[2]), l)
RatLess(a, b) == RatAdd(a, <<-b[1], b[2]>>)[1] < 0

---------------------------------------------------------------------------
(* Math.cos, Math.sin and division, on angles in steps. *)

\* currentTime / orbitalPeriod * Math.PI * 2: a finite angle, or not finite
\* (x / undefined is NaN, x / 0 is NaN or an infinity).
Finite(k) == [finite |-> TRUE, k |-> k]
NotFinite == [finite |-> FALSE, k |-> 0]
\* 2 * Math.cos(theta): NaN for NaN and the infinities.
Cos2(theta) ==
    IF theta.finite THEN Num(Add(Unit(theta.k), Unit(-theta.k))) ELSE NaN
\* 2 * Math.sin(theta) = -i * (zeta^k - zeta^-k), with i = zeta^QuarterTurn.
Sin2(theta) ==
    IF theta.finite
    THEN Num(Add(Unit(QuarterTurn - theta.k), Scale(-1, Unit(QuarterTurn + theta.k))))
    ELSE NaN
\* n * x for an integer n.
Times(n, x) == IF x.nan THEN NaN ELSE Num(Scale(n, x.v))
\* 1000 * (1 - eccentricity); NaN when eccentricity is undefined.
OneMinus(eccentricity) ==
    IF eccentricity = None THEN NaN ELSE Num(Const(1000 - Val(eccentricity)))
\* x * y where y is an integer-valued number or NaN.
TimesNum(x, y) ==
    IF x.nan \/ y.nan THEN NaN ELSE Num(Scale(Coef(y.v, 0), x.v))

Vector3(x, y, z) == [x |-> x, y |-> y, z |-> z]
\* new THREE.Object3D().position
Origin == Vector3(Num(Zero), Num(Zero), Num(Zero))

---------------------------------------------------------------------------
(* The catalog. *)

Config(rotationPeriod, axialTilt, semiMajorAxis, eccentricity, orbitalPeriod, position) ==
    [rotationPeriod |-> rotationPeriod, axialTilt |-> axialTilt,
     semiMajorAxis |-> semiMajorAxis, eccentricity |-> eccentricity,
     orbitalPeriod |-> orbitalPeriod, position |-> position]

PLANETARY_DATA ==
    [SUN     |-> Config(Some(2700), Some(7250), None, None, None,
                        Some([x |-> 0, y |-> 0, z |-> 0])),
     MERCURY |-> Config(Some(5860), Some(34), Some(387), Some(206), Some(8800), None),
     VENUS   |-> Config(Some(-24300), Some(177400), Some(723), Some(7), Some(22470), None),
     EARTH   |-> Config(Some(100), Some(23440), Some(1000), Some(17), Some(36525), None),
     MARS    |-> Config(Some(103), Some(25190), Some(1524), Some(93), Some(68700), None),
     JUPITER |-> Config(Some(41), Some(3130), Some(5203), Some(48), Some(433300), None),
     SATURN  |-> Config(Some(44), Some(26730), Some(9537), Some(54), Some(1075900), None),
     URANUS  |-> Config(Some(-72), Some(97770), Some(19191), Some(47), Some(3068700), None),
     NEPTUNE |-> Config(Some(67), Some(28320), Some(30069), Some(9), Some(6019000), None)]

\* PLANETARY_DATA.<name>: undefined for a key the object does not have.
Lookup(name) ==
    IF name \in DOMAIN PLANETARY_DATA THEN Some(PLANETARY_DATA[name]) ELSE None
\* { ...entry, textureMap }: spreading undefined adds no field.
Spread(e) ==
    IF e = None THEN Config(None, None, None, None, None, None) ELSE Val(e)

---------------------------------------------------------------------------
(* class CelestialBody *)

\* FramesPerDay counting seconds instead of frames.
FramesPerDay_Seconds == 24 * 60 * 60

\* 24 * 60 * 60 * 60: frames per day at 60 frames per second.
FramesPerDay == 24 * 60 * 60 * 60

\* RotationSpeed with the period's sign dropped.
RotationSpeed_Unsigned(rotationPeriod) ==
    IF Truthy(rotationPeriod)
    THEN Rat(1, Abs(Val(rotationPeriod)) * (FramesPerDay \div 100))
    ELSE <<0, 1>>

\* (2 * Math.PI) / (rotationPeriod * 24 * 60 * 60 * 60), in turns per frame;
\* 0 for a falsy rotationPeriod.
RotationSpeed(rotationPeriod) ==
    IF Truthy(rotationPeriod)
    THEN Rat(1, Val(rotationPeriod) * (FramesPerDay \div 100))
    ELSE <<0, 1>>

\* THREE.MathUtils.degToRad(axialTilt), in turns; NaN for undefined.
DegToRad(axialTilt) ==
    IF axialTilt = None THEN [nan |-> TRUE, q |-> <<0, 1>>]
    ELSE [nan |-> FALSE, q |-> Rat(Val(axialTilt), 360 * 1000)]

\* EllipsePoint with cos written for sin in z.
EllipsePoint_CosTwice(semiMajorAxis, eccentricity, theta) ==
    Vector3(Times(1000 * Val(semiMajorAxis), Cos2(theta)),
            Num(Zero),
            TimesNum(Times(Val(semiMajorAxis), Cos2(theta)), OneMinus(eccentricity)))

\* x = semiMajorAxis * cos(theta), z = semiMajorAxis * sin(theta) * (1 - eccentricity)
EllipsePoint(semiMajorAxis, eccentricity, theta) ==
    Vector3(Times(1000 * Val(semiMajorAxis), Cos2(theta)),
            Num(Zero),
            TimesNum(Times(Val(semiMajorAxis), Sin2(theta)), OneMinus(eccentricity)))

segments == 128

\* Theta with Math.PI for Math.PI * 2.
Theta_HalfTurn(i) == Finite((i * HalfTurn) \div segments)

\* theta = (i / segments) * Math.PI * 2
Theta(i) == Finite((i * TwoPi) \div segments)

\* setupOrbit with the loop stopping at i < segments.
setupOrbit_Open(semiMajorAxis, eccentricity) ==
    [j \in 1..segments |-> EllipsePoint(semiMajorAxis, eccentricity, Theta(j - 1))]

\* setupOrbit: the points pushed for i = 0 .. segments.
setupOrbit(semiMajorAxis, eccentricity) ==
    [j \in 1..(segments + 1) |-> EllipsePoint(semiMajorAxis, eccentricity, Theta(j - 1))]

\* The holder placed at the configuration's position.
OrbitHolderPosition_FromConfig(position) ==
    Vector3(Num(Const(2000 * position.x)), Num(Const(2000 * position.y)),
            Num(Const(2000 * position.z)))

\* new THREE.Object3D(): the holder starts at the origin; the constructor's
\* position parameter is not used.
OrbitHolderPosition(position) == Origin

\* The constructor.
CelestialBody(cfg) ==
    LET position == IF cfg.position = None
                    THEN [x |-> 0, y |-> 0, z |-> 0] ELSE Val(cfg.position)
    IN  [orbitalPeriod |-> cfg.orbitalPeriod,
         semiMajorAxis |-> cfg.semiMajorAxis,
         eccentricity  |-> cfg.eccentricity,
         currentTime   |-> 0,
         rotationSpeed |-> RotationSpeed(cfg.rotationPeriod),
         rotationX     |-> DegToRad(cfg.axialTilt),
         rotationY     |-> <<0, 1>>,
         position      |-> OrbitHolderPosition(position),
         orbitLine     |-> IF Truthy(cfg.semiMajorAxis)
                           THEN Some(setupOrbit(cfg.semiMajorAxis, cfg.eccentricity))
                           ELSE None]

\* TimeFactor with the time running backwards (currentTime -= ...).
TimeFactor_Negated(e) == IF e = "script.js" THEN -1 ELSE -20

\* The factor update applies to deltaTime: none in script.js, 20 in part_001.
TimeFactor(e) == IF e = "script.js" THEN 1 ELSE 20

\* OrbitalProgress with Math.PI for Math.PI * 2.
OrbitalProgress_HalfTurn(currentTime, orbitalPeriod) ==
    IF orbitalPeriod = None \/ orbitalPeriod = Some(0) THEN NotFinite
    ELSE Finite((currentTime * HalfTurn) \div Val(orbitalPeriod))

\* (this.currentTime / this.orbitalPeriod) * Math.PI * 2
OrbitalProgress(currentTime, orbitalPeriod) ==
    IF orbitalPeriod = None \/ orbitalPeriod = Some(0) THEN NotFinite
    ELSE Finite((currentTime * TwoPi) \div Val(orbitalPeriod))

\* update with the spin driven by deltaTime instead of by the frame.
update_SpinByDelta(e, body, deltaTime) ==
    LET currentTime == body.currentTime + deltaTime * TimeFactor(e)
    IN  [body EXCEPT
            !.currentTime = currentTime,
            !.position =
                IF Truthy(body.semiMajorAxis)
                THEN EllipsePoint(body.semiMajorAxis, body.eccentricity,
                                  OrbitalProgress(currentTime, body.orbitalPeriod))
                ELSE @,
            !.rotationY = IF deltaTime = 0 THEN @ ELSE RatAdd(@, body.rotationSpeed)]

\* update with the spin applied to the tilt axis as well.
update_TiltDrifts(e, body, deltaTime) ==
    LET currentTime == body.currentTime + deltaTime * TimeFactor(e)
    IN  [body EXCEPT
            !.currentTime = currentTime,
            !.position =
                IF Truthy(body.semiMajorAxis)
                THEN EllipsePoint(body.semiMajorAxis, body.eccentricity,
                                  OrbitalProgress(currentTime, body.orbitalPeriod))
                ELSE @,
            !.rotationX = IF @.nan THEN @
                          ELSE [nan |-> FALSE, q |-> RatAdd(@.q, body.rotationSpeed)],
            !.rotationY = RatAdd(@, body.rotationSpeed)]

\* update with the position computed before currentTime is advanced.
update_StalePosition(e, body, deltaTime) ==
    LET currentTime == body.currentTime + deltaTime * TimeFactor(e)
    IN  [body EXCEPT
            !.currentTime = currentTime,
            !.position =
                IF Truthy(body.semiMajorAxis)
                THEN EllipsePoint(body.semiMajorAxis, body.eccentricity,
                                  OrbitalProgress(body.currentTime, body.orbitalPeriod))
                ELSE @,
            !.rotationY = RatAdd(@, body.rotationSpeed)]

\* update(deltaTime)
update(e, body, deltaTime) ==
    LET currentTime == body.currentTime + deltaTime * TimeFactor(e)
    IN  [body EXCEPT
            !.currentTime = currentTime,
            !.position =
                IF Truthy(body.semiMajorAxis)
                THEN EllipsePoint(body.semiMajorAxis, body.eccentricity,
                                  OrbitalProgress(currentTime, body.orbitalPeriod))
                ELSE @,
            !.rotationY = RatAdd(@, body.rotationSpeed)]

---------------------------------------------------------------------------
(* class SolarSystemScene and the top-level script *)

Entries == {"script.js", "part_001"}

\* Configurations written out in an addCelestialBody call instead of being
\* spread from the catalog.
LiteralConfigs ==
    [circular   |-> Config(Some(100), Some(0), Some(3), Some(0), Some(16), None),
     retrograde |-> Config(Some(-100), Some(90000), Some(5), Some(200), Some(4), None),
     zeroPeriod |-> Config(Some(100), Some(0), Some(3), Some(0), Some(0), None),
     bare       |-> Config(None, None, Some(3), None, None, None),
     offCentre  |-> Config(Some(0), None, None, None, None,
                           Some([x |-> 5, y |-> 5, z |-> 5]))]

Catalog(key) == [kind |-> "catalog", name |-> key]
Literal(name) == [kind |-> "literal", name |-> name]

\* The bodyConfig a statement passes to addCelestialBody.
BodyConfig(stmt) ==
    IF stmt.kind = "catalog" THEN Spread(Lookup(stmt.name))
    ELSE LiteralConfigs[stmt.name]

\* The top level as written: the Sun and the eight planets.
MainScript ==
    <<Catalog("SUN"), Catalog("MERCURY"), Catalog("VENUS"), Catalog("EARTH"),
      Catalog("MARS"), Catalog("JUPITER"), Catalog("SATURN"), Catalog("URANUS"),
      Catalog("NEPTUNE")>>

\* The top levels the model runs: the one written, and others using the same
\* two classes.
Scripts ==
    { MainScript,
      <<Catalog("PLUTO"), Literal("circular")>>,
      <<Literal("offCentre"), Literal("retrograde")>>,
      <<Literal("circular"), Literal("retrograde")>>,
      <<Literal("zeroPeriod"), Literal("bare")>> }

ClockDeltas == 0..MaxDelta
TimeScales == -1..MaxTimeScale

Init ==
    /\ entry \in Entries
    /\ script \in Scripts
    /\ pc = 1
    /\ celestialBodies = <<>>
    /\ timeScale = 1
    /\ frame = 0
    /\ clockDelta = 0
    /\ calls = <<>>

\* solarSystem.addCelestialBody(bodyConfig): the next statement of the script.
addCelestialBody ==
    /\ pc <= Len(script)
    /\ celestialBodies' = Append(celestialBodies, CelestialBody(BodyConfig(script[pc])))
    /\ pc' = pc + 1
    /\ UNCHANGED <<entry, script, timeScale, frame, clockDelta, calls>>

\* this.timeScale is assigned between frames.
SetTimeScale ==
    /\ \E s \in TimeScales : s # timeScale /\ timeScale' = s
    /\ UNCHANGED <<entry, script, pc, celestialBodies, frame, clockDelta, calls>>

\* A call made during a frame, with what it was given.
Call(op, arg) == [op |-> op, arg |-> arg]

\* UpdateAt with currentTime read from the first body, as if the elapsed time
\* were shared by all bodies.
UpdateAt_SharedTime(e, bodies, i, deltaTime) ==
    [bodies EXCEPT ![i] =
        update(e, [bodies[i] EXCEPT !.currentTime = bodies[1].currentTime], deltaTime)]

\* body => body.update(deltaTime), applied to the body at index i of the list.
UpdateAt(e, bodies, i, deltaTime) ==
    [bodies EXCEPT ![i] = update(e, bodies[i], deltaTime)]

\* this.celestialBodies.forEach(body => body.update(deltaTime)), the bodies
\* visited in the given order.
RECURSIVE ForEach(_, _, _, _)
ForEach(e, bodies, order, deltaTime) ==
    IF order = <<>> THEN bodies
    ELSE ForEach(e, UpdateAt(e, bodies, Head(order), deltaTime), Tail(order), deltaTime)

\* Array.prototype.forEach visits the indices in ascending order: the order in
\* which addCelestialBody pushed the bodies.
InsertionOrder(bodies) == [i \in 1..Len(bodies) |-> i]

\* What renderer.render draws: each body's elapsed time and spin angle.
Seen(bodies) ==
    [i \in 1..Len(bodies) |-> <<bodies[i].currentTime, bodies[i].rotationY>>]

\* The body of animate with the render call moved before the updates.
Frame_RenderFirst(e, bodies, d, scale) ==
    LET deltaTime == d * scale
        order == InsertionOrder(bodies)
    IN  [bodies |-> ForEach(e, bodies, order, deltaTime),
         calls  |-> <<Call("requestAnimationFrame", <<>>), Call("getDelta", <<>>),
                      Call("render", Seen(bodies))>>
                    \o [k \in 1..Len(order) |-> Call("update", <<order[k]>>)]
                    \o <<Call("controls.update", <<>>)>>]

\* The body of animate: the bodies after the frame and the calls it made.
Frame(e, bodies, d, scale) ==
    LET deltaTime == d * scale
        order == InsertionOrder(bodies)
        updated == ForEach(e, bodies, order, deltaTime)
    IN  [bodies |-> updated,
         calls  |-> <<Call("requestAnimationFrame", <<>>), Call("getDelta", <<>>)>>
                    \o [k \in 1..Len(order) |-> Call("update", <<order[k]>>)]
                    \o <<Call("controls.update", <<>>), Call("render", Seen(updated))>>]

\* animate(): one frame, once the script has reached solarSystem.animate().
animate ==
    /\ pc > Len(script)
    /\ frame < MaxFrames
    /\ \E d \in ClockDeltas :
        LET f == Frame(entry, celestialBodies, d, timeScale)
        IN  /\ celestialBodies' = f.bodies
            /\ calls' = f.calls
            /\ clockDelta' = d
    /\ frame' = frame + 1
    /\ UNCHANGED <<entry, script, pc, timeScale>>

Next == addCelestialBody \/ SetTimeScale \/ animate

Spec == Init /\ [][Next]_vars

---------------------------------------------------------------------------
(* Vocabulary of the properties. *)

Bodies == DOMAIN celestialBodies
\* The bodyConfig body i was constructed from.
ConfigOf(i) == BodyConfig(script[i])
\* Constructed without a semiMajorAxis.
Stationary(i) == ConfigOf(i).semiMajorAxis = None
Orbiting(i) == Truthy(celestialBodies[i].semiMajorAxis)
\* Orbiting with the constants section 4.2 of the specification asks for:
\* orbitalPeriod > 0 and an eccentricity.
ValidOrbit(i) ==
    /\ Orbiting(i)
    /\ celestialBodies[i].orbitalPeriod # None
    /\ Val(celestialBodies[i].orbitalPeriod) > 0
    /\ celestialBodies[i].eccentricity # None
\* This step is a tick (a frame of animate).
Tick == frame' = frame + 1
\* The position update computes for body i at elapsed time t.
PositionAt(i, t) ==
    EllipsePoint(celestialBodies[i].semiMajorAxis, celestialBodies[i].eccentricity,
                 OrbitalProgress(t, celestialBodies[i].orbitalPeriod))
HasNaN(p) == p.x.nan \/ p.y.nan \/ p.z.nan

---------------------------------------------------------------------------
(* C1 *)

\* C1: on every tick every body's elapsedTime (currentTime) increases by exactly
\* deltaTime * timeScale, deltaTime being what the clock supplied for the tick,
\* with no other factor, whichever entry point runs.
C1_ElapsedByScaledDelta ==
    [][Tick => \A i \in Bodies :
            celestialBodies'[i].currentTime =
                celestialBodies[i].currentTime + clockDelta' * timeScale]_vars

---------------------------------------------------------------------------
(* C2 *)

\* C2 as stated: a tick with deltaTime = 0 leaves every body's elapsedTime,
\* position and spin angle unchanged.
C2_ZeroTickChangesNothing ==
    [][(Tick /\ clockDelta' = 0) => \A i \in Bodies :
            /\ celestialBodies'[i].currentTime = celestialBodies[i].currentTime
            /\ celestialBodies'[i].position = celestialBodies[i].position
            /\ celestialBodies'[i].rotationY = celestialBodies[i].rotationY]_vars

\* C2 amended: a tick with deltaTime = 0 leaves every body's elapsedTime
\* unchanged; it leaves the position of a Stationary body unchanged, and that of
\* an Orbiting body too unless the tick is the first one (which moves the body
\* from the origin to its orbit); the spin angle advances by rotationSpeed as on
\* any tick, so it is unchanged only when rotationSpeed is 0.
C2_ZeroTickAmended ==
    [][(Tick /\ clockDelta' = 0) => \A i \in Bodies :
            /\ celestialBodies'[i].currentTime = celestialBodies[i].currentTime
            /\ (~Orbiting(i) \/ frame >= 1) =>
                   celestialBodies'[i].position = celestialBodies[i].position
            /\ celestialBodies'[i].rotationY =
                   RatAdd(celestialBodies[i].rotationY, celestialBodies[i].rotationSpeed)
            /\ (celestialBodies'[i].rotationY = celestialBodies[i].rotationY)
                   <=> (celestialBodies[i].rotationSpeed = <<0, 1>>)]_vars

\* A zero tick has just run, after an earlier tick that moved time, on a scene
\* holding a spinning Orbiting body and a non-spinning one.
C2_Witness ==
    /\ frame >= 2 /\ clockDelta = 0
    /\ \E i \in Bodies :
        /\ Orbiting(i)
        /\ celestialBodies[i].currentTime # 0
        /\ celestialBodies[i].rotationSpeed # <<0, 1>>
    /\ \E i \in Bodies : celestialBodies[i].rotationSpeed = <<0, 1>>

---------------------------------------------------------------------------
(* C3 *)

\* C3: a body constructed without a semiMajorAxis is at (0,0,0) in every
\* reachable state, whatever its elapsedTime and whatever position its
\* configuration carried.
C3_StationaryAtOrigin ==
    \A i \in Bodies : Stationary(i) => celestialBodies[i].position = Origin

\* A Stationary body configured with a position off the origin has been ticked
\* to a nonzero elapsedTime.
C3_Witness ==
    \E i \in Bodies :
        /\ Stationary(i)
        /\ ConfigOf(i).position # None
        /\ Val(ConfigOf(i).position) # [x |-> 0, y |-> 0, z |-> 0]
        /\ celestialBodies[i].currentTime # 0
        /\ frame >= 2

---------------------------------------------------------------------------
(* C4 *)

\* C4: for an Orbiting body of orbitalPeriod P, the position update computed at
\* the current elapsedTime t is the position it computes at t + P.
C4_Periodic ==
    \A i \in Bodies :
        (ValidOrbit(i) /\ frame >= 1) =>
            celestialBodies[i].position =
                PositionAt(i, celestialBodies[i].currentTime
                                + Val(celestialBodies[i].orbitalPeriod))

\* An Orbiting body has been moved off its starting axis, part of a period in.
C4_Witness ==
    \E i \in Bodies :
        /\ ValidOrbit(i) /\ frame >= 1
        /\ celestialBodies[i].currentTime > 0
        /\ celestialBodies[i].currentTime % Val(celestialBodies[i].orbitalPeriod) # 0
        /\ celestialBodies[i].position.z # Num(Zero)
        /\ celestialBodies[i].position.x # Num(Zero)

---------------------------------------------------------------------------
(* C5 *)

\* C5: over a tick with positive deltaTime the spin angle of a body with
\* negative rotationPeriod strictly decreases and that of a body with positive
\* rotationPeriod strictly increases, on every such tick of a run.
C5_SpinDirection ==
    [][(Tick /\ clockDelta' > 0) => \A i \in Bodies :
            LET rp == ConfigOf(i).rotationPeriod
            IN  /\ (rp # None /\ Val(rp) < 0) =>
                       RatLess(celestialBodies'[i].rotationY, celestialBodies[i].rotationY)
                /\ (rp # None /\ Val(rp) > 0) =>
                       RatLess(celestialBodies[i].rotationY, celestialBodies'[i].rotationY)]_vars

\* Two ticks with positive deltaTime have run on a scene holding a retrograde
\* body, now at a negative spin angle, and a prograde one, at a positive angle.
C5_Witness ==
    /\ frame >= 2 /\ clockDelta > 0
    /\ \E i \in Bodies :
        /\ ConfigOf(i).rotationPeriod # None
        /\ Val(ConfigOf(i).rotationPeriod) < 0
        /\ celestialBodies[i].rotationY[1] < 0
    /\ \E i \in Bodies :
        /\ ConfigOf(i).rotationPeriod # None
        /\ Val(ConfigOf(i).rotationPeriod) > 0
        /\ celestialBodies[i].rotationY[1] > 0

---------------------------------------------------------------------------
(* C6 *)

---------------------------------------------------------------------------
(* C7 *)

\* C7: a body with a semiMajorAxis and an orbitalPeriod that is 0, absent or
\* negative is refused at construction: no such body is in the scene, and no
\* tick computes a NaN position.
C7_BadPeriodRejected ==
    \A i \in Bodies :
        /\ Truthy(ConfigOf(i).semiMajorAxis) =>
            /\ ConfigOf(i).orbitalPeriod # None
            /\ Val(ConfigOf(i).orbitalPeriod) > 0
        /\ ~HasNaN(celestialBodies[i].position)

---------------------------------------------------------------------------
(* C8 *)

\* C8: looking up a name the catalog does not hold raises an error at the
\* lookup: no body of the scene was built from the lookup of an unknown name.
C8_UnknownNameRejected ==
    \A i \in Bodies :
        script[i].kind = "catalog" => Lookup(script[i].name) # None

---------------------------------------------------------------------------
(* C9 *)

\* C9: for an Orbiting body with eccentricity 0, after every tick
\* x^2 + z^2 = semiMajorAxis^2 and y = 0.
C9_CircularRadius ==
    \A i \in Bodies :
        (ValidOrbit(i) /\ celestialBodies[i].eccentricity = Some(0) /\ frame >= 1) =>
            LET p == celestialBodies[i].position
                a == 2000 * Val(celestialBodies[i].semiMajorAxis)
            IN  /\ ~HasNaN(p)
                /\ p.y = Num(Zero)
                /\ Add(Mul(p.x.v, p.x.v), Mul(p.z.v, p.z.v)) = Const(a * a)

\* A circular orbit has been ticked to a point off both axes.
C9_Witness ==
    \E i \in Bodies :
        /\ ValidOrbit(i) /\ celestialBodies[i].eccentricity = Some(0) /\ frame >= 1
        /\ Cardinality(celestialBodies[i].position.x.v) >= 2
        /\ Cardinality(celestialBodies[i].position.z.v) >= 2

---------------------------------------------------------------------------
(* C10 *)

\* C10 as stated: elapsedTime is 0 at construction and never decreases over a
\* tick, the clock's deltas being non-negative and timeScale being any value.
C10_NeverDecreases ==
    [][/\ \A i \in Bodies :
            celestialBodies'[i].currentTime >= celestialBodies[i].currentTime
       /\ \A i \in DOMAIN celestialBodies' \ Bodies :
            celestialBodies'[i].currentTime = 0]_vars

\* C10 amended: elapsedTime is 0 at construction and never decreases over a tick
\* whose timeScale is non-negative, the clock's deltas being non-negative; over a
\* tick with a negative timeScale and a positive delta it decreases.
C10_NeverDecreasesAmended ==
    [][/\ \A i \in Bodies :
            /\ timeScale >= 0 =>
                celestialBodies'[i].currentTime >= celestialBodies[i].currentTime
            /\ (Tick /\ timeScale < 0 /\ clockDelta' > 0) =>
                celestialBodies'[i].currentTime < celestialBodies[i].currentTime
       /\ \A i \in DOMAIN celestialBodies' \ Bodies :
            celestialBodies'[i].currentTime = 0]_vars

\* timeScale has been raised above its initial 1 and, after two ticks, the last
\* with a positive delta, a body's elapsedTime is positive.
C10_Witness ==
    /\ frame >= 2 /\ timeScale > 1 /\ clockDelta > 0
    /\ \E i \in Bodies : celestialBodies[i].currentTime > 0

---------------------------------------------------------------------------
(* C11 *)

\* The sign of an integer.
Sign(n) == IF n < 0 THEN -1 ELSE IF n > 0 THEN 1 ELSE 0

\* rotationSpeed s is 2*pi / (|rotationPeriod| * ticksPerDay) with the sign of
\* rotationPeriod, or 0 for a zero or absent rotationPeriod (rotationPeriod in
\* hundredths of a day, s in turns, ticksPerDay a multiple of 100).
SpeedIs(s, rotationPeriod, ticksPerDay) ==
    IF ~Truthy(rotationPeriod) THEN s = <<0, 1>>
    ELSE /\ Sign(s[1]) = Sign(Val(rotationPeriod))
         /\ Abs(s[1]) = 1
         /\ s[2] = Abs(Val(rotationPeriod)) * (ticksPerDay \div 100)

\* C11 as stated: in every state, ticks included, rotationSpeed is 0 for a zero
\* or absent rotationPeriod and otherwise 2*pi / (|rotationPeriod| * C) with the
\* sign of rotationPeriod, C being 86400 ticks per simulated day.
C11_SpeedPer86400 ==
    \A i \in Bodies :
        SpeedIs(celestialBodies[i].rotationSpeed, ConfigOf(i).rotationPeriod, 86400)

\* C11 amended: the same with C = 24*60*60*60 = 5184000 ticks per simulated
\* day (86400 seconds of 60 frames each).
C11_SpeedPer5184000 ==
    \A i \in Bodies :
        SpeedIs(celestialBodies[i].rotationSpeed, ConfigOf(i).rotationPeriod, 5184000)

\* Two ticks have run on a scene holding a retrograde body and a body that does
\* not rotate.
C11_Witness ==
    /\ frame >= 2
    /\ \E i \in Bodies :
        /\ ConfigOf(i).rotationPeriod # None
        /\ Val(ConfigOf(i).rotationPeriod) < 0
        /\ celestialBodies[i].rotationSpeed[1] < 0
    /\ \E i \in Bodies : ~Truthy(ConfigOf(i).rotationPeriod)

---------------------------------------------------------------------------
(* C12 *)

\* The elapsedTime (i / segments) * orbitalPeriod of sample i, when it is a whole
\* number of time units.
SampleTimes(i, j) ==
    IF (j * Val(celestialBodies[i].orbitalPeriod)) % segments = 0
    THEN {(j * Val(celestialBodies[i].orbitalPeriod)) \div segments}
    ELSE {}

---------------------------------------------------------------------------
(* C13 *)

\* C13: a body is Stationary or Orbiting from its construction on: no step
\* changes its semiMajorAxis, eccentricity, orbitalPeriod, rotationSpeed or
\* axial tilt (mesh.rotation.x), so no Stationary body becomes Orbiting and no
\* Orbiting body Stationary.
C13_ConstantsFixed ==
    [][\A i \in Bodies :
        /\ celestialBodies'[i].semiMajorAxis = celestialBodies[i].semiMajorAxis
        /\ celestialBodies'[i].eccentricity = celestialBodies[i].eccentricity
        /\ celestialBodies'[i].orbitalPeriod = celestialBodies[i].orbitalPeriod
        /\ celestialBodies'[i].rotationSpeed = celestialBodies[i].rotationSpeed
        /\ celestialBodies'[i].rotationX = celestialBodies[i].rotationX
        /\ Truthy(celestialBodies'[i].semiMajorAxis) <=> Orbiting(i)
        /\ celestialBodies'[i].semiMajorAxis = ConfigOf(i).semiMajorAxis]_vars

\* Two ticks have run on a scene holding a Stationary body and a tilted,
\* spinning Orbiting body that has moved.
C13_Witness ==
    /\ frame >= 2
    /\ \E i \in Bodies : Stationary(i)
    /\ \E i \in Bodies :
        /\ Orbiting(i)
        /\ ~celestialBodies[i].rotationX.nan
        /\ celestialBodies[i].rotationX.q # <<0, 1>>
        /\ celestialBodies[i].rotationY # <<0, 1>>
        /\ celestialBodies[i].currentTime # 0

---------------------------------------------------------------------------
(* C14 *)

IsUpdate(c) == c.op = "update"
IsGetDelta(c) == c.op = "getDelta"
IsRender(c) == c.op = "render"

\* C14: a frame reads the clock once, then updates every body of
\* celestialBodies exactly once, in insertion order, all with the same scaled
\* delta, and calls render only after the last update, on the updated bodies.
C14_FrameOrder ==
    [][Tick =>
        LET n == Len(celestialBodies)
            last == Len(calls')
        IN  /\ Len(SelectSeq(calls', IsGetDelta)) = 1
            /\ SelectSeq(calls', IsUpdate) = [k \in 1..n |-> Call("update", <<k>>)]
            /\ Len(SelectSeq(calls', IsRender)) = 1
            /\ calls'[last] = Call("render", Seen(celestialBodies'))
            /\ \A j, k \in 1..last :
                   (IsGetDelta(calls'[j]) /\ IsUpdate(calls'[k])) => j < k
            /\ Len(celestialBodies') = n
            /\ \A i \in 1..n :
                   celestialBodies'[i] =
                       update(entry, celestialBodies[i], clockDelta' * timeScale)]_vars

\* A second frame has run on a scene of several bodies, with time advancing and
\* a body spinning, and the renderer was given the bodies as they now are.
C14_Witness ==
    /\ frame >= 2 /\ Len(celestialBodies) >= 2 /\ clockDelta > 0
    /\ calls # <<>>
    /\ calls[Len(calls)] = Call("render", Seen(celestialBodies))
    /\ \E i \in Bodies : celestialBodies[i].currentTime # 0
    /\ \E i \in Bodies : celestialBodies[i].rotationY # <<0, 1>>

---------------------------------------------------------------------------
(* C15 *)

\* The insertion order with positions a and b exchanged.
Exchanged(n, a, b) ==
    [i \in 1..n |-> IF i = a THEN b ELSE IF i = b THEN a ELSE i]
\* The orders tried: every exchange of two positions (the identity among them)
\* and the reverse order; for two bodies these are all the permutations.
Orders(n) ==
    {Exchanged(n, a, b) : a, b \in 1..n} \cup {[i \in 1..n |-> n + 1 - i]}

\* C15: what a body is after a tick depends only on what it was before, its
\* constants and the tick's scaled delta; updating the bodies in another order
\* of the list leaves every body in the same state.
C15_OrderInsensitive ==
    [][Tick =>
        LET n == Len(celestialBodies)
            deltaTime == clockDelta' * timeScale
        IN  /\ \A i \in 1..n :
                   celestialBodies'[i] = update(entry, celestialBodies[i], deltaTime)
            /\ \A order \in Orders(n) :
                   ForEach(entry, celestialBodies, order, deltaTime) = celestialBodies']_vars

\* Two ticks have run on a scene of two different moving bodies, at different
\* positions and spin angles.
C15_Witness ==
    /\ frame >= 2 /\ clockDelta > 0 /\ timeScale # 0
    /\ \E i, j \in Bodies :
        /\ i # j
        /\ Orbiting(i) /\ Orbiting(j)
        /\ celestialBodies[i].currentTime # 0
        /\ celestialBodies[i].position # celestialBodies[j].position
        /\ celestialBodies[i].rotationY # celestialBodies[j].rotationY

---------------------------------------------------------------------------
(* C16 *)

\* C16: after at least one tick an Orbiting body is at
\* (semiMajorAxis*cos(p), 0, semiMajorAxis*sin(p)*(1 - eccentricity)),
\* p = (elapsedTime / orbitalPeriod) * 2*pi at its current elapsedTime; before
\* the first tick it is at the origin, not at the elapsedTime = 0 point
\* (semiMajorAxis, 0, 0).
C16_PositionFromElapsed ==
    \A i \in Bodies :
        Orbiting(i) =>
            LET b == celestialBodies[i]
                a == Val(b.semiMajorAxis)
            IN  /\ (frame >= 1 /\ ValidOrbit(i)) =>
                    LET p == Finite((b.currentTime * TwoPi) \div Val(b.orbitalPeriod))
                    IN  /\ b.position.x = Num(Scale(1000 * a, Cos2(p).v))
                        /\ b.position.y = Num(Zero)
                        /\ b.position.z =
                               Num(Scale(a * (1000 - Val(b.eccentricity)), Sin2(p).v))
                /\ (frame >= 1 /\ ~ValidOrbit(i)) => HasNaN(b.position)
                /\ frame = 0 =>
                    /\ b.position = Origin
                    /\ b.position # Vector3(Num(Const(2000 * a)), Num(Zero), Num(Zero))

\* An Orbiting body has been ticked forward and then back to an earlier
\* elapsedTime, off both axes.
C16_Witness ==
    /\ frame >= 3 /\ timeScale < 0 /\ clockDelta > 0
    /\ \E i \in Bodies :
        /\ ValidOrbit(i)
        /\ celestialBodies[i].currentTime > 0
        /\ Cardinality(celestialBodies[i].position.x.v) >= 2
        /\ celestialBodies[i].position.z # Num(Zero)

====
